---- MODULE Spec2Model ----
(***************************************************************************)
(* Model of stories.py: the user-story rules of the GEDCOM checker.  A     *)
(* story is a function of a gedcom.File wrapped by the story and log       *)
(* decorators.  The state is the record graph the stories are given and    *)
(* the outcome of the last story call: the Result returned, the exception  *)
(* raised, the log lines emitted.                                          *)
(***************************************************************************)
EXTENDS Integers, Sequences, FiniteSets, TLC

VARIABLES
    gedcom_file,  \* the record graph: [individuals, families], both in file order
    called,       \* name of the story called last ("" before any call)
    argType,      \* type of the argument that call was given
    bodyRuns,     \* how many times that call ran the story's body
    raised,       \* exception that call raised ("" when it returned)
    returned,     \* the Result that call returned (NoResult when it raised)
    logged        \* log lines that call emitted, in order

vars == <<gedcom_file, called, argType, bodyRuns, raised, returned, logged>>

----------------------------------------------------------------------------
(* Bounds of the model                                                     *)

\* number of consecutive calendar days the ordering rules' dates are drawn from
NumDates == 3
\* largest number of children listed in the family of the sibling rules
MaxChildren == 3
\* largest number of freely chosen spouse-families of the husband of the bigamy rule
MaxMarriages == 2

----------------------------------------------------------------------------
(* Calendar dates: <<year, month, day>>; <<>> is an absent date (None)     *)

NoDate == <<>>
None == "None"

IsLeap(y) == (y % 4 = 0) /\ ((y % 100 # 0) \/ (y % 400 = 0))

DaysInMonth(y, m) ==
    IF m = 2 THEN (IF IsLeap(y) THEN 29 ELSE 28)
    ELSE IF m \in {4, 6, 9, 11} THEN 30 ELSE 31

RECURSIVE DaysBeforeMonth(_, _)
DaysBeforeMonth(y, m) ==
    IF m = 1 THEN 0 ELSE DaysBeforeMonth(y, m - 1) + DaysInMonth(y, m - 1)

\* datetime.toordinal(): days since 0001-01-01, that day being 1
ToOrdinal(dt) ==
    LET y == dt[1] - 1
    IN  y * 365 + (y \div 4) - (y \div 100) + (y \div 400)
        + DaysBeforeMonth(dt[1], dt[2]) + dt[3]

\* dt + timedelta(days = n), n >= 0
RECURSIVE AddDays(_, _)
AddDays(dt, n) ==
    IF dt[3] + n <= DaysInMonth(dt[1], dt[2]) THEN <<dt[1], dt[2], dt[3] + n>>
    ELSE AddDays(IF dt[2] < 12 THEN <<dt[1], dt[2] + 1, 1>> ELSE <<dt[1] + 1, 1, 1>>,
                 n - (DaysInMonth(dt[1], dt[2]) - dt[3] + 1))

\* (a - b).days of two datetimes at midnight
DaysDiff(a, b) == ToOrdinal(a) - ToOrdinal(b)

\* a < b of two dates: datetime order, year then month then day
DateLT(a, b) ==
    \/ a[1] < b[1]
    \/ a[1] = b[1] /\ a[2] < b[2]
    \/ a[1] = b[1] /\ a[2] = b[2] /\ a[3] < b[3]

DateLE(a, b) == a = b \/ DateLT(a, b)

\* x.has("..._date"): the date is present
Has(v) == v # NoDate

\* fam.has("husband"), fam.has("wife"): the reference is present
HasRef(x) == x # None

----------------------------------------------------------------------------
(* The record graph                                                        *)

Range(s) == {s[k] : k \in 1..Len(s)}

RECURSIVE Concat(_)
Concat(ss) == IF ss = <<>> THEN <<>> ELSE Head(ss) \o Concat(Tail(ss))

\* the individual / family an xref resolves to
IndiOf(g, x) == CHOOSE i \in Range(g.individuals) : i.xref = x
FamOf(g, x) == CHOOSE f \in Range(g.families) : f.xref = x

\* indi.families("FAMS"): the families of the individual's FAMS lines, in order
FamiliesFAMS(g, indi) == [k \in 1..Len(indi.fams) |-> FamOf(g, indi.fams[k])]

\* fam.children: the individuals of the family's CHIL lines, in order
Children(g, fam) == [k \in 1..Len(fam.children) |-> IndiOf(g, fam.children[k])]

Individual(x, b, d, fs) ==
    [xref |-> x, birth_date |-> b, death_date |-> d, fams |-> fs]

Family(x, h, w, cs, m, dv) ==
    [xref |-> x, husband |-> h, wife |-> w, children |-> cs,
     marriage_date |-> m, divorce_date |-> dv]

----------------------------------------------------------------------------
(* The decorators                                                          *)

NoResult == [id |-> "", name |-> "", output |-> [passed |-> <<>>, failed |-> <<>>]]

\* what a story's body yields: the exception it raised, or its two lists
Out(p, f) == [raised |-> "", passed |-> p, failed |-> f]
Raise(e) == [raised |-> e, passed |-> <<>>, failed |-> <<>>]

\* the r of a story's body from its loop's appends, in order: each append is
\* [passed |-> which list, out |-> the entry]
Appended(apps, toPassed) ==
    LET sel == SelectSeq(apps, LAMBDA a : a.passed = toPassed)
    IN  [k \in 1..Len(sel) |-> sel[k].out]

Collect(apps) == Out(Appended(apps, TRUE), Appended(apps, FALSE))

Append1(ok, out) == <<[passed |-> ok, out |-> out]>>

\* a loop's appends, or the exception of the first iteration that raised
CollectOrRaise(steps) ==
    IF \E k \in 1..Len(steps) : "raised" \in DOMAIN steps[k]
    THEN Raise(steps[CHOOSE k \in 1..Len(steps) :
                        /\ "raised" \in DOMAIN steps[k]
                        /\ \A j \in 1..(k - 1) : "raised" \notin DOMAIN steps[j]].raised)
    ELSE Collect(steps)

\* the same lines with the failed entries logged first
LogLines_failed_first(r) ==
    [k \in 1..Len(r.output.failed) |->
        [story_id |-> r.id, story_name |-> r.name, status |-> "Failed",
         message |-> r.output.failed[k].message]]
    \o
    [k \in 1..Len(r.output.passed) |->
        [story_id |-> r.id, story_name |-> r.name, status |-> "Passed",
         message |-> r.output.passed[k].message]]

\* log.func_wrapper: one logging.info per passed entry, then one per failed entry
LogLines(r) ==
    [k \in 1..Len(r.output.passed) |->
        [story_id |-> r.id, story_name |-> r.name, status |-> "Passed",
         message |-> r.output.passed[k].message]]
    \o
    [k \in 1..Len(r.output.failed) |->
        [story_id |-> r.id, story_name |-> r.name, status |-> "Failed",
         message |-> r.output.failed[k].message]]

\* story(id_)(func) after @log, called with an argument of type arg; body is
\* what func(gedcom_file) yields
Story(id_, name, arg, body) ==
    LET r == [id |-> id_, name |-> name,
              output |-> [passed |-> body.passed, failed |-> body.failed]]
    IN  /\ called' = name
        /\ argType' = arg
        /\ IF arg # "gedcom.File"
           THEN /\ bodyRuns' = 0
                /\ raised' = "TypeError"
                /\ returned' = NoResult
                /\ logged' = <<>>
           ELSE IF body.raised # ""
           THEN /\ bodyRuns' = 1
                /\ raised' = body.raised
                /\ returned' = NoResult
                /\ logged' = <<>>
           ELSE /\ bodyRuns' = 1
                /\ raised' = ""
                /\ returned' = r
                /\ logged' = LogLines(r)
        /\ UNCHANGED gedcom_file

ArgTypes == {"gedcom.File", "str"}

----------------------------------------------------------------------------
(* US02 birth_before_marriage                                              *)

birth_before_marriage_out(indi, fam) ==
    Append1(DateLT(indi.birth_date, fam.marriage_date),
            [indi |-> [xref |-> indi.xref, birth_date |-> indi.birth_date],
             fam |-> [xref |-> fam.xref, marr_date |-> fam.marriage_date],
             \* passed_msg / failed_msg .format(*msg_out)
             message |-> <<IF DateLT(indi.birth_date, fam.marriage_date)
                           THEN "passed_msg" ELSE "failed_msg",
                           indi.xref, indi.birth_date, fam.xref, fam.marriage_date>>])

\* the same loop without the birth_date filter, an absent birth counted as failed
birth_before_marriage_body_unfiltered(g) ==
    LET indis == g.individuals
        fams(indi) == SelectSeq(FamiliesFAMS(g, indi), LAMBDA f : Has(f.marriage_date))
        out(indi, fam) ==
            IF Has(indi.birth_date) THEN birth_before_marriage_out(indi, fam)
            ELSE Append1(FALSE,
                         [indi |-> [xref |-> indi.xref, birth_date |-> indi.birth_date],
                          fam |-> [xref |-> fam.xref, marr_date |-> fam.marriage_date],
                          message |-> <<"failed_msg", indi.xref, indi.birth_date,
                                        fam.xref, fam.marriage_date>>])
    IN  Collect(Concat([i \in 1..Len(indis) |->
            Concat([k \in 1..Len(fams(indis[i])) |->
                out(indis[i], fams(indis[i])[k])])]))

birth_before_marriage_body(g) ==
    LET indis == SelectSeq(g.individuals, LAMBDA i : Has(i.birth_date))
        fams(indi) == SelectSeq(FamiliesFAMS(g, indi), LAMBDA f : Has(f.marriage_date))
    IN  Collect(Concat([i \in 1..Len(indis) |->
            Concat([k \in 1..Len(fams(indis[i])) |->
                birth_before_marriage_out(indis[i], fams(indis[i])[k])])]))

birth_before_marriage(arg) ==
    Story("Error US02", "birth_before_marriage", arg,
          birth_before_marriage_body(gedcom_file))

----------------------------------------------------------------------------
(* US03 birth_before_death                                                 *)

birth_before_death_out(indi) ==
    Append1(DateLT(indi.birth_date, indi.death_date),
            [xref |-> indi.xref, birth_date |-> indi.birth_date,
             death_date |-> indi.death_date,
             message |-> IF DateLT(indi.birth_date, indi.death_date)
                         THEN "passed_message" ELSE "failed_message"])

birth_before_death_body(g) ==
    LET indis == SelectSeq(g.individuals,
                           LAMBDA i : Has(i.birth_date) /\ Has(i.death_date))
    IN  Collect(Concat([i \in 1..Len(indis) |-> birth_before_death_out(indis[i])]))

birth_before_death(arg) ==
    Story("Error US03", "birth_before_death", arg,
          birth_before_death_body(gedcom_file))

----------------------------------------------------------------------------
(* US04 marriage_before_divorce                                            *)

\* the same entry with the comparison <= in place of <
marriage_before_divorce_out_le(fam) ==
    Append1(DateLE(fam.marriage_date, fam.divorce_date),
            [family_xref |-> fam.xref,
             husband_xref |-> fam.husband, wife_xref |-> fam.wife,
             marriage_date |-> fam.marriage_date, divorce_date |-> fam.divorce_date,
             message |-> IF DateLE(fam.marriage_date, fam.divorce_date)
                         THEN "passed_message" ELSE "failed_message"])

marriage_before_divorce_out(fam) ==
    Append1(DateLT(fam.marriage_date, fam.divorce_date),
            [family_xref |-> fam.xref,
             husband_xref |-> fam.husband, wife_xref |-> fam.wife,
             marriage_date |-> fam.marriage_date, divorce_date |-> fam.divorce_date,
             message |-> IF DateLT(fam.marriage_date, fam.divorce_date)
                         THEN "passed_message" ELSE "failed_message"])

marriage_before_divorce_body(g) ==
    LET fams == SelectSeq(g.families,
                          LAMBDA f : Has(f.marriage_date) /\ Has(f.divorce_date))
    IN  Collect(Concat([i \in 1..Len(fams) |-> marriage_before_divorce_out(fams[i])]))

marriage_before_divorce(arg) ==
    Story("Error US04", "marriage_before_divorce", arg,
          marriage_before_divorce_body(gedcom_file))

----------------------------------------------------------------------------
(* US08 birth_before_marriage_of_parents                                   *)

\* the same verdict with the divorce clause left out
birth_before_marriage_of_parents_passed_no_divorce(fam, child) ==
    DateLT(fam.marriage_date, child.birth_date)

birth_before_marriage_of_parents_passed(fam, child) ==
    IF Has(fam.divorce_date)
    THEN DateLT(fam.marriage_date, child.birth_date)
         /\ DateLT(child.birth_date, fam.divorce_date)
    ELSE DateLT(fam.marriage_date, child.birth_date)

birth_before_marriage_of_parents_out(fam, child) ==
    Append1(birth_before_marriage_of_parents_passed(fam, child),
            [family_xref |-> fam.xref, child_xref |-> child.xref,
             mother_xref |-> fam.wife, father_xref |-> fam.husband,
             child_birth_date |-> child.birth_date,
             marriage_date |-> fam.marriage_date,
             divorce_date |-> fam.divorce_date,
             message |-> IF Has(fam.divorce_date) THEN "div_msg" ELSE "mar_msg"])

birth_before_marriage_of_parents_body(g) ==
    LET fams == SelectSeq(g.families, LAMBDA f : Has(f.marriage_date))
        kids(fam) == SelectSeq(Children(g, fam), LAMBDA c : Has(c.birth_date))
    IN  Collect(Concat([i \in 1..Len(fams) |->
            Concat([k \in 1..Len(kids(fams[i])) |->
                birth_before_marriage_of_parents_out(fams[i], kids(fams[i])[k])])]))

birth_before_marriage_of_parents(arg) ==
    Story("Anomaly US08", "birth_before_marriage_of_parents", arg,
          birth_before_marriage_of_parents_body(gedcom_file))

----------------------------------------------------------------------------
(* US13 siblings_spacing                                                   *)

\* tools.days_between(a, b): the number of days the two dates differ by
days_between(a, b) ==
    IF DaysDiff(a, b) < 0 THEN DaysDiff(b, a) ELSE DaysDiff(a, b)

\* combinations(s, 2): the pairs <<s[i], s[j]>>, i < j, in lexicographic order
Combinations2(s) ==
    Concat([i \in 1..Len(s) |-> [j \in 1..(Len(s) - i) |-> <<s[i], s[i + j]>>]])

\* the same verdict with the lower threshold inclusive
siblings_spacing_passed_le(days) == (days <= 2) \/ (days > 240)

siblings_spacing_passed(days) == (days < 2) \/ (days > 240)

\* the same entry with the days counted from the second sibling's birth to the
\* first's, negative when the first listed is the elder
siblings_spacing_out_signed(fam, sib_a, sib_b) ==
    LET days == DaysDiff(sib_a.birth_date, sib_b.birth_date)
    IN  Append1(siblings_spacing_passed(days),
                [family_xref |-> fam.xref,
                 mother_xref |-> fam.wife, father_xref |-> fam.husband,
                 days_apart |-> days,
                 sibling_one |-> [xref |-> sib_a.xref, birth_date |-> sib_a.birth_date],
                 sibling_two |-> [xref |-> sib_b.xref, birth_date |-> sib_b.birth_date],
                 message |-> "msg"])

siblings_spacing_out(fam, sib_a, sib_b) ==
    LET days == days_between(sib_a.birth_date, sib_b.birth_date)
    IN  Append1(siblings_spacing_passed(days),
                [family_xref |-> fam.xref,
                 mother_xref |-> fam.wife, father_xref |-> fam.husband,
                 days_apart |-> days,
                 sibling_one |-> [xref |-> sib_a.xref, birth_date |-> sib_a.birth_date],
                 sibling_two |-> [xref |-> sib_b.xref, birth_date |-> sib_b.birth_date],
                 message |-> "msg"])

siblings_spacing_body(g) ==
    LET siblings(fam) == SelectSeq(Children(g, fam), LAMBDA c : Has(c.birth_date))
        pairs(fam) == IF Len(siblings(fam)) >= 2 THEN Combinations2(siblings(fam))
                      ELSE <<>>
    IN  Collect(Concat([i \in 1..Len(g.families) |->
            Concat([k \in 1..Len(pairs(g.families[i])) |->
                siblings_spacing_out(g.families[i], pairs(g.families[i])[k][1],
                                     pairs(g.families[i])[k][2])])]))

siblings_spacing(arg) ==
    Story("Anomaly US13", "siblings_spacing", arg, siblings_spacing_body(gedcom_file))

----------------------------------------------------------------------------
(* US11 no_bigamy                                                          *)

\* the dt of a marriage_end with no divorce and no death: later than any date
OpenEnd == <<9999, 12, 31>>

\* the death dates of the spouses the family names
SpouseDeaths(g, fam) ==
    {IndiOf(g, x).death_date : x \in {fam.husband, fam.wife} \ {None}} \ {NoDate}

Earliest(dates) == CHOOSE d \in dates : \A e \in dates : DateLE(d, e)

\* fam.marriage_end: the divorce date, else the earlier death date of the
\* spouses, else open
marriage_end(g, fam) ==
    IF Has(fam.divorce_date)
    THEN [dt |-> fam.divorce_date, reason |-> "divorce"]
    ELSE IF SpouseDeaths(g, fam) # {}
    THEN [dt |-> Earliest(SpouseDeaths(g, fam)), reason |-> "death"]
    ELSE [dt |-> OpenEnd, reason |-> "open"]

\* the same test with the first comparison strict
no_bigamy_failed_strict(start1, end1, start2, end2) ==
    DateLT(start1, end2.dt) /\ DateLE(start2, end1.dt)

no_bigamy_failed(start1, end1, start2, end2) ==
    DateLE(start1, end2.dt) /\ DateLE(start2, end1.dt)

\* the same read of a dict kept with the family: once popped it has no dt
marriage_end_read_shared(g, fam, popped) ==
    IF fam.xref \in popped THEN [reason |-> marriage_end(g, fam).reason]
    ELSE marriage_end(g, fam)

\* fam.marriage_end read after the dicts of the families in popped have lost
\* their dt: every read derives a new dict from the family, so popped does not
\* matter
marriage_end_read(g, fam, popped) == marriage_end(g, fam)

\* one iteration of the loop over the pairs; popped holds the families whose
\* marriage_end dicts earlier iterations popped dt from
no_bigamy_out(g, indi, fam_1, fam_2, popped) ==
    LET start1 == fam_1.marriage_date
        end1 == marriage_end_read(g, fam_1, popped)
        start2 == fam_2.marriage_date
        end2 == marriage_end_read(g, fam_2, popped)
    IN  IF "dt" \notin DOMAIN end1 \/ "dt" \notin DOMAIN end2
        THEN <<[raised |-> "KeyError"]>>
        ELSE Append1(~no_bigamy_failed(start1, end1, start2, end2),
                     [individual |-> [xref |-> indi.xref],
                      family_1 |-> [xref |-> fam_1.xref, marriage_date |-> start1,
                                    marriage_end |-> [reason |-> end1.reason]],
                      family_2 |-> [xref |-> fam_2.xref, marriage_date |-> start2,
                                    marriage_end |-> [reason |-> end2.reason]],
                      message |-> "msg"])

\* the iterations over <<indi, fam_1, fam_2>>, in order, each followed by
\* end1.pop("dt"), end2.pop("dt")
RECURSIVE no_bigamy_pairs(_, _, _)
no_bigamy_pairs(g, todo, popped) ==
    IF todo = <<>> THEN <<>>
    ELSE no_bigamy_out(g, Head(todo)[1], Head(todo)[2], Head(todo)[3], popped)
         \o no_bigamy_pairs(g, Tail(todo),
                            popped \cup {Head(todo)[2].xref, Head(todo)[3].xref})

\* <<indi, fam_1, fam_2>> of the two loops past the marriage_date checks, in order
no_bigamy_todo(g) ==
    LET pairs(indi) ==
            SelectSeq(Combinations2(FamiliesFAMS(g, indi)),
                      LAMBDA p : Has(p[1].marriage_date) /\ Has(p[2].marriage_date))
    IN  Concat([i \in 1..Len(g.individuals) |->
            [k \in 1..Len(pairs(g.individuals[i])) |->
                <<g.individuals[i], pairs(g.individuals[i])[k][1],
                  pairs(g.individuals[i])[k][2]>>]])

no_bigamy_body(g) == CollectOrRaise(no_bigamy_pairs(g, no_bigamy_todo(g), {}))

no_bigamy(arg) ==
    Story("Anomaly US11", "no_bigamy", arg, no_bigamy_body(gedcom_file))

----------------------------------------------------------------------------
(* US05 marriage_before_death and US06 divorce_before_death                *)

\* the None a family without a husband or wife gives for fam.husband / fam.wife,
\* written as an individual with no xref
NoIndi == [xref |-> None, birth_date |-> NoDate, death_date |-> NoDate, fams |-> <<>>]

IsNone(spouse) == spouse.xref = None

\* fam.husband / fam.wife: the individual, None when the family names none
Husband(g, fam) == IF HasRef(fam.husband) THEN IndiOf(g, fam.husband) ELSE NoIndi
Wife(g, fam) == IF HasRef(fam.wife) THEN IndiOf(g, fam.wife) ELSE NoIndi

\* fam.has("husband") and fam.husband.has("death_date"), likewise for the wife
HasDeath(spouse) == ~IsNone(spouse) /\ Has(spouse.death_date)

DeathOrNone(spouse) == IF HasDeath(spouse) THEN spouse.death_date ELSE NoDate

\* the if / elif chain of both rules: which spouses' deaths are compared;
\* "AttributeError" when fam.husband or fam.wife is None where .has is called
SpouseDeathCase(h, w) ==
    IF IsNone(h) THEN "AttributeError"
    ELSE IF Has(h.death_date) /\ IsNone(w) THEN "AttributeError"
    ELSE IF Has(h.death_date) /\ Has(w.death_date) THEN "both"
    ELSE IF Has(h.death_date) THEN "husband"
    ELSE IF IsNone(w) THEN "AttributeError"
    ELSE IF Has(w.death_date) THEN "wife"
    ELSE "neither"

marriage_before_death_fam(g, fam) ==
    LET h == Husband(g, fam)
        w == Wife(g, fam)
        which == SpouseDeathCase(h, w)
        h_ok == DateLT(fam.marriage_date, h.death_date)
        w_ok == DateLT(fam.marriage_date, w.death_date)
        out(msg) == [family_xref |-> fam.xref, marriage_date |-> fam.marriage_date,
                     husband_xref |-> fam.husband, wife_xref |-> fam.wife,
                     husband_death_date |-> DeathOrNone(h),
                     wife_death_date |-> DeathOrNone(w),
                     message |-> msg]
    IN  CASE which = "AttributeError" -> <<[raised |-> "AttributeError"]>>
          [] which = "both" ->
                Append1(h_ok /\ w_ok,
                        out(<<IF h_ok THEN "pass_msg" ELSE "fail_msg",
                              IF w_ok THEN "pass_msg" ELSE "fail_msg">>))
          [] which = "husband" ->
                Append1(h_ok, out(<<IF h_ok THEN "pass_msg" ELSE "fail_msg">>))
          [] which = "wife" ->
                Append1(w_ok, out(<<IF w_ok THEN "pass_msg" ELSE "fail_msg">>))
          [] OTHER -> <<>>

marriage_before_death_body(g) ==
    LET fams == SelectSeq(g.families, LAMBDA f : Has(f.marriage_date))
    IN  CollectOrRaise(Concat([i \in 1..Len(fams) |->
                                  marriage_before_death_fam(g, fams[i])]))

marriage_before_death(arg) ==
    Story("Error US05", "marriage_before_death", arg,
          marriage_before_death_body(gedcom_file))

\* the verdict on one spouse: the death is before the divorce
divorce_before_death_ok(fam, spouse) == DateLT(spouse.death_date, fam.divorce_date)

divorce_before_death_fam(g, fam) ==
    LET h == Husband(g, fam)
        w == Wife(g, fam)
        which == SpouseDeathCase(h, w)
        h_ok == divorce_before_death_ok(fam, h)
        w_ok == divorce_before_death_ok(fam, w)
        out(msg) == [family_xref |-> fam.xref, divorce_date |-> fam.divorce_date,
                     husband_xref |-> fam.husband, wife_xref |-> fam.wife,
                     husband_death_date |-> DeathOrNone(h),
                     \* fam.wife.death_date.story_dict if the husband has a death date
                     wife_death_date |-> IF HasDeath(h) THEN w.death_date ELSE NoDate,
                     message |-> msg]
    IN  CASE HasDeath(h) /\ ~HasDeath(w) -> <<[raised |-> "AttributeError"]>>
          [] which = "AttributeError" -> <<[raised |-> "AttributeError"]>>
          [] which = "both" ->
                Append1(h_ok /\ w_ok,
                        out(<<IF h_ok THEN "pass_msg" ELSE "fail_msg", "pass_msg">>))
          [] which = "husband" ->
                Append1(h_ok, out(<<IF h_ok THEN "pass_msg" ELSE "fail_msg">>))
          [] which = "wife" ->
                Append1(w_ok, out(<<IF w_ok THEN "pass_msg" ELSE "fail_msg">>))
          [] OTHER -> <<>>

divorce_before_death_body(g) ==
    LET fams == SelectSeq(g.families, LAMBDA f : Has(f.divorce_date))
    IN  CollectOrRaise(Concat([i \in 1..Len(fams) |->
                                  divorce_before_death_fam(g, fams[i])]))

divorce_before_death(arg) ==
    Story("Error US06", "divorce_before_death", arg,
          divorce_before_death_body(gedcom_file))

----------------------------------------------------------------------------
(* US09 birth_before_death_of_parents                                      *)

\* chk_mom / chk_dad
chk_parent(parent) == ~IsNone(parent) /\ Has(parent.death_date)

\* mom_pass when chk_mom: the child's birth is before the mother's birth date
mom_pass(child, wife) == DateLT(child.birth_date, wife.birth_date)

\* dad_pass when chk_dad: the days from the child's birth to the father's birth
\* date, divided by 30 rounding down, are more than 9
dad_pass(child, husband) ==
    (DaysDiff(husband.birth_date, child.birth_date) \div 30) > 9

birth_before_death_of_parents_child(g, fam, child) ==
    LET w == Wife(g, fam)
        h == Husband(g, fam)
        chk_mom == chk_parent(w)
        chk_dad == chk_parent(h)
        passed == (chk_mom => mom_pass(child, w)) /\ (chk_dad => dad_pass(child, h))
    IN  \* a parent with a death date and no birth date: None has no .dt, no
        \* .story_dict
        IF (chk_mom /\ ~Has(w.birth_date)) \/ (chk_dad /\ ~Has(h.birth_date))
        THEN <<[raised |-> "AttributeError"]>>
        ELSE Append1(passed,
                     [family_xref |-> fam.xref,
                      child |-> [xref |-> child.xref, birth_date |-> child.birth_date],
                      mother |-> [xref |-> fam.wife,
                                  birth_date |-> IF chk_mom THEN w.birth_date
                                                 ELSE NoDate],
                      father |-> [xref |-> fam.husband,
                                  birth_date |-> IF chk_dad THEN h.birth_date
                                                 ELSE NoDate],
                      message |-> <<IF chk_mom THEN "death date" ELSE "no death date",
                                    IF chk_dad THEN "death date" ELSE "no death date">>])

birth_before_death_of_parents_body(g) ==
    LET kids(fam) == SelectSeq(Children(g, fam), LAMBDA c : Has(c.birth_date))
    IN  CollectOrRaise(Concat([i \in 1..Len(g.families) |->
            Concat([k \in 1..Len(kids(g.families[i])) |->
                birth_before_death_of_parents_child(g, g.families[i],
                                                    kids(g.families[i])[k])])]))

birth_before_death_of_parents(arg) ==
    Story("Error US09", "birth_before_death_of_parents", arg,
          birth_before_death_of_parents_body(gedcom_file))

----------------------------------------------------------------------------
(* US10 marriage_after_14                                                  *)

\* tools.years_between(a, b), a not before b: whole calendar years from b to a
years_between(a, b) ==
    a[1] - b[1] - (IF a[2] < b[2] \/ (a[2] = b[2] /\ a[3] < b[3]) THEN 1 ELSE 0)

\* fam.husband_marriage_age / fam.wife_marriage_age
marriage_age(fam, spouse) == years_between(fam.marriage_date, spouse.birth_date)

marriage_after_14_passed(wife_marriage_age, husband_marriage_age) ==
    (wife_marriage_age > 14) /\ (husband_marriage_age > 14)

marriage_after_14_fam(g, fam) ==
    LET h == Husband(g, fam)
        w == Wife(g, fam)
    IN  IF ~Has(fam.marriage_date) THEN <<>>
        ELSE IF IsNone(h) \/ ~Has(h.birth_date) THEN <<>>
        ELSE IF IsNone(w) \/ ~Has(w.birth_date) THEN <<>>
        ELSE Append1(marriage_after_14_passed(marriage_age(fam, w), marriage_age(fam, h)),
                     [family |-> [xref |-> fam.xref],
                      wife |-> [xref |-> w.xref, birth_date |-> w.birth_date,
                                marriage_age |-> marriage_age(fam, w)],
                      husband |-> [xref |-> h.xref, birth_date |-> h.birth_date,
                                   marriage_age |-> marriage_age(fam, h)],
                      message |-> "msg"])

marriage_after_14_body(g) ==
    Collect(Concat([i \in 1..Len(g.families) |-> marriage_after_14_fam(g, g.families[i])]))

marriage_after_14(arg) ==
    Story("Anomaly US10", "marriage_after_14", arg, marriage_after_14_body(gedcom_file))

----------------------------------------------------------------------------
(* The ordering rules on one family: husband I1, wife I2, child I3         *)

OrderDates == {AddDays(<<1999, 12, 30>>, k) : k \in 1..NumDates}

OptOrderDates == OrderDates \cup {NoDate}

OrderGraph(hb, hd, wb, cb, m, dv) ==
    [individuals |-> <<Individual("I1", hb, hd, <<"F1">>),
                       Individual("I2", wb, NoDate, <<"F1">>),
                       Individual("I3", cb, NoDate, <<>>)>>,
     families |-> <<Family("F1", "I1", "I2", <<"I3">>, m, dv)>>]

Idle ==
    /\ called = ""
    /\ argType = ""
    /\ bodyRuns = 0
    /\ raised = ""
    /\ returned = NoResult
    /\ logged = <<>>

Init ==
    /\ \E hb, hd, wb, cb, m, dv \in OptOrderDates :
           gedcom_file = OrderGraph(hb, hd, wb, cb, m, dv)
    /\ Idle

Next ==
    \E arg \in ArgTypes :
        \/ birth_before_marriage(arg)
        \/ birth_before_death(arg)
        \/ marriage_before_divorce(arg)
        \/ birth_before_marriage_of_parents(arg)

Spec == Init /\ [][Next]_vars

----------------------------------------------------------------------------
(* Properties of the ordering rules                                        *)

Returned(name) == called = name /\ argType = "gedcom.File" /\ raised = ""

Passed == returned.output.passed
Failed == returned.output.failed

\* how many entries of a list satisfy P
Count(entries, P(_)) == Cardinality({k \in 1..Len(entries) : P(entries[k])})

Before(a, b) == ToOrdinal(a) < ToOrdinal(b)

Individuals == Range(gedcom_file.individuals)
Families == Range(gedcom_file.families)

\* C2: an individual with no birth date is in neither the passed nor the failed
\* list of birth_before_marriage, birth_before_death and
\* birth_before_marriage_of_parents (as the child), whatever else it has.
C2_MissingBirthExcluded ==
    \A i \in Individuals : ~Has(i.birth_date) =>
        /\ Returned("birth_before_marriage") =>
               \A e \in Range(Passed) \cup Range(Failed) : e.indi.xref # i.xref
        /\ Returned("birth_before_death") =>
               \A e \in Range(Passed) \cup Range(Failed) : e.xref # i.xref
        /\ Returned("birth_before_marriage_of_parents") =>
               \A e \in Range(Passed) \cup Range(Failed) : e.child_xref # i.xref

\* an individual without a birth date, married in a family with a marriage date,
\* is left out while the spouse with a birth date is reported
C2_Witness ==
    /\ Returned("birth_before_marriage")
    /\ \E i \in Individuals :
           /\ ~Has(i.birth_date) /\ Has(i.death_date)
           /\ \E k \in 1..Len(i.fams) : Has(FamOf(gedcom_file, i.fams[k]).marriage_date)
    /\ Len(Passed) + Len(Failed) = 1

\* C3: in birth_before_marriage, birth_before_death and marriage_before_divorce
\* every examined entity with both dates A and B has exactly one entry, in passed
\* iff A is strictly before B and in failed otherwise (equal dates fail).
C3_TwoDateOrdering ==
    /\ Returned("birth_before_marriage") =>
           \A i \in Individuals : \A k \in 1..Len(i.fams) :
               LET f == FamOf(gedcom_file, i.fams[k])
                   mine(e) == e.indi.xref = i.xref /\ e.fam.xref = f.xref
               IN  (Has(i.birth_date) /\ Has(f.marriage_date)) =>
                       /\ Count(Passed, mine) + Count(Failed, mine) = 1
                       /\ Count(Passed, mine) = 1 <=> Before(i.birth_date, f.marriage_date)
    /\ Returned("birth_before_death") =>
           \A i \in Individuals :
               LET mine(e) == e.xref = i.xref
               IN  (Has(i.birth_date) /\ Has(i.death_date)) =>
                       /\ Count(Passed, mine) + Count(Failed, mine) = 1
                       /\ Count(Passed, mine) = 1 <=> Before(i.birth_date, i.death_date)
    /\ Returned("marriage_before_divorce") =>
           \A f \in Families :
               LET mine(e) == e.family_xref = f.xref
               IN  (Has(f.marriage_date) /\ Has(f.divorce_date)) =>
                       /\ Count(Passed, mine) + Count(Failed, mine) = 1
                       /\ Count(Passed, mine) = 1 <=> Before(f.marriage_date, f.divorce_date)

\* a family married and divorced on the same day is reported as failed
C3_Witness ==
    /\ Returned("marriage_before_divorce")
    /\ \E f \in Families :
           /\ Has(f.marriage_date) /\ f.marriage_date = f.divorce_date
           /\ \E k \in 1..Len(Failed) : Failed[k].family_xref = f.xref

\* C6: birth_before_marriage_of_parents has exactly one entry for every family
\* with a marriage date and every child of it with a birth date; the entry is in
\* passed iff the marriage is strictly before the birth and, when the family has a
\* divorce date, the birth is strictly before the divorce.
C6_BirthWithinMarriage ==
    Returned("birth_before_marriage_of_parents") =>
        \A f \in Families : \A k \in 1..Len(f.children) :
            LET c == IndiOf(gedcom_file, f.children[k])
                mine(e) == e.family_xref = f.xref /\ e.child_xref = c.xref
            IN  (Has(f.marriage_date) /\ Has(c.birth_date)) =>
                    /\ Count(Passed, mine) + Count(Failed, mine) = 1
                    /\ Count(Passed, mine) = 1 <=>
                           /\ Before(f.marriage_date, c.birth_date)
                           /\ Has(f.divorce_date) => Before(c.birth_date, f.divorce_date)

\* a child born after the marriage and after the divorce is reported as failed
C6_Witness ==
    /\ Returned("birth_before_marriage_of_parents")
    /\ \E f \in Families : \E k \in 1..Len(f.children) :
           LET c == IndiOf(gedcom_file, f.children[k])
           IN  /\ Has(f.marriage_date) /\ Has(f.divorce_date) /\ Has(c.birth_date)
               /\ Before(f.marriage_date, c.birth_date)
               /\ Before(f.divorce_date, c.birth_date)
               /\ Len(Failed) = 1 /\ Len(Passed) = 0

----------------------------------------------------------------------------
(* The sibling rules on one family and its children I1, I2, ...            *)

\* births 0, 1, 2, 3, 240 and 241 days after 1 JAN 2000
SiblingDates == {AddDays(<<2000, 1, 1>>, k) : k \in {0, 1, 2, 3, 240, 241}}

ChildXref(k) == <<"I1", "I2", "I3", "I4", "I5">>[k]

SiblingGraph(births) ==
    [individuals |-> [k \in 1..Len(births) |->
                         Individual(ChildXref(k), births[k], NoDate, <<>>)],
     families |-> <<Family("F1", None, None,
                           [k \in 1..Len(births) |-> ChildXref(k)], NoDate, NoDate)>>]

InitSiblings ==
    /\ \E n \in 0..MaxChildren :
           \E births \in [1..n -> SiblingDates \cup {NoDate}] :
               gedcom_file = SiblingGraph(births)
    /\ Idle

NextSiblings == \E arg \in ArgTypes : siblings_spacing(arg)

SpecSiblings == InitSiblings /\ [][NextSiblings]_vars

\* the number of days between two births
Apart(a, b) ==
    LET d == ToOrdinal(a.birth_date) - ToOrdinal(b.birth_date)
    IN  IF d < 0 THEN 0 - d ELSE d

\* the entries of a list about the two children, in either order
ForPair(entries, a, b) ==
    Count(entries, LAMBDA e :
        {e.sibling_one.xref, e.sibling_two.xref} = {a.xref, b.xref})

PairPasses(a, b) == ForPair(Passed, a, b) = 1 /\ ForPair(Failed, a, b) = 0
PairFails(a, b) == ForPair(Passed, a, b) = 0 /\ ForPair(Failed, a, b) = 1

\* the pairs of distinct children of one family that both have birth dates
SiblingPairs ==
    {p \in Individuals \X Individuals :
        /\ p[1].xref # p[2].xref
        /\ Has(p[1].birth_date) /\ Has(p[2].birth_date)
        /\ \E f \in Families : {p[1].xref, p[2].xref} \subseteq Range(f.children)}

\* C4 as stated: a pair of siblings born exactly 2 days apart passes, 3 days
\* apart fails, 240 days apart fails and 241 days apart passes.
C4_AsStated ==
    Returned("siblings_spacing") =>
        \A p \in SiblingPairs :
            /\ Apart(p[1], p[2]) = 2 => PairPasses(p[1], p[2])
            /\ Apart(p[1], p[2]) = 3 => PairFails(p[1], p[2])
            /\ Apart(p[1], p[2]) = 240 => PairFails(p[1], p[2])
            /\ Apart(p[1], p[2]) = 241 => PairPasses(p[1], p[2])

\* C4 amended: a pair of siblings born exactly 1 day apart passes, 2 days apart
\* fails, 3 days apart fails, 240 days apart fails and 241 days apart passes.
C4_SpacingBoundaries ==
    Returned("siblings_spacing") =>
        \A p \in SiblingPairs :
            /\ Apart(p[1], p[2]) = 1 => PairPasses(p[1], p[2])
            /\ Apart(p[1], p[2]) = 2 => PairFails(p[1], p[2])
            /\ Apart(p[1], p[2]) = 3 => PairFails(p[1], p[2])
            /\ Apart(p[1], p[2]) = 240 => PairFails(p[1], p[2])
            /\ Apart(p[1], p[2]) = 241 => PairPasses(p[1], p[2])

\* two siblings born exactly 2 days apart, reported as failed
C4_Witness ==
    /\ Returned("siblings_spacing")
    /\ \E p \in SiblingPairs : Apart(p[1], p[2]) = 2 /\ PairFails(p[1], p[2])

----------------------------------------------------------------------------
(* The bigamy rule on one husband I1 and his families F1, F2, ...          *)

BigamyDates == {<<2000, 1, 1>>, <<2001, 6, 15>>, <<2002, 1, 1>>}

FamXref(k) == <<"F1", "F2", "F3", "F4", "F5">>[k]
WifeXref(k) == <<"W1", "W2", "W3", "W4", "W5">>[k]

\* ms[k] is <<marriage date, divorce date, death date of the wife>> of family k;
\* extra adds a further marriage F0 of 15 JUN 2001 with no divorce and a living
\* wife, listed first or last among the husband's families
BigamyGraph(hd, ms, extra) ==
    LET listed == [k \in 1..Len(ms) |-> FamXref(k)]
        fams == CASE extra = "first" -> <<"F0">> \o listed
                  [] extra = "last" -> listed \o <<"F0">>
                  [] OTHER -> listed
    IN  [individuals |->
            <<Individual("I1", NoDate, hd, fams)>>
            \o (IF extra = "none" THEN <<>>
                ELSE <<Individual("W0", NoDate, NoDate, <<"F0">>)>>)
            \o [k \in 1..Len(ms) |->
                   Individual(WifeXref(k), NoDate, ms[k][3], <<FamXref(k)>>)],
         families |->
            (IF extra = "none" THEN <<>>
             ELSE <<Family("F0", "I1", "W0", <<>>, <<2001, 6, 15>>, NoDate)>>)
            \o [k \in 1..Len(ms) |->
                   Family(FamXref(k), "I1", WifeXref(k), <<>>, ms[k][1], ms[k][2])]]

InitBigamy ==
    /\ \E n \in 0..MaxMarriages :
           \E hd \in {NoDate, <<2002, 1, 1>>} :
               \E ms \in [1..n -> (BigamyDates \cup {NoDate})
                                   \X {NoDate, <<2000, 1, 1>>, <<2002, 1, 1>>}
                                   \X {NoDate, <<2001, 6, 15>>}] :
                   \E extra \in {"none", "first", "last"} :
                       gedcom_file = BigamyGraph(hd, ms, extra)
    /\ Idle

NextBigamy == \E arg \in ArgTypes : no_bigamy(arg)

SpecBigamy == InitBigamy /\ [][NextBigamy]_vars

\* the recorded end of a family's marriage: the divorce date, else the earlier
\* death date of its spouses; {} when the marriage has no recorded end
RecordedEnd(f) ==
    IF Has(f.divorce_date) THEN {f.divorce_date}
    ELSE LET deaths == {i.death_date : i \in {j \in Individuals :
                            j.xref \in {f.husband, f.wife}}} \ {NoDate}
         IN  {d \in deaths : \A e \in deaths : ToOrdinal(d) <= ToOrdinal(e)}

NotAfter(a, b) == ToOrdinal(a) <= ToOrdinal(b)

\* start1 <= end2 and start2 <= end1, an absent end being later than any date
Overlap(f1, f2) ==
    /\ \A e \in RecordedEnd(f2) : NotAfter(f1.marriage_date, e)
    /\ \A e \in RecordedEnd(f1) : NotAfter(f2.marriage_date, e)

\* the entries of a list about the individual and the two families
ForMarriages(entries, i, f1, f2) ==
    Count(entries, LAMBDA e :
        /\ e.individual.xref = i.xref
        /\ {e.family_1.xref, e.family_2.xref} = {f1.xref, f2.xref})

\* <<i, f1, f2>>: an individual and two of its spouse-families, f1 listed before
\* f2, both with a marriage date
MarriagePairs ==
    UNION {{<<i, FamOf(gedcom_file, i.fams[ab[1]]), FamOf(gedcom_file, i.fams[ab[2]])>> :
               ab \in {p \in (1..Len(i.fams)) \X (1..Len(i.fams)) :
                   /\ p[1] < p[2]
                   /\ Has(FamOf(gedcom_file, i.fams[p[1]]).marriage_date)
                   /\ Has(FamOf(gedcom_file, i.fams[p[2]]).marriage_date)}} :
           i \in Individuals}

OneEntryFailedIffOverlap ==
    \A t \in MarriagePairs :
        /\ ForMarriages(Passed, t[1], t[2], t[3])
           + ForMarriages(Failed, t[1], t[2], t[3]) = 1
        /\ ForMarriages(Failed, t[1], t[2], t[3]) = 1 <=> Overlap(t[2], t[3])

----------------------------------------------------------------------------
(* The spouse-death rules on one family: husband I1, wife I2, either of    *)
(* which the family may not name                                           *)

SpouseGraph(h, w, hd, wd, m, dv) ==
    [individuals |-> <<Individual("I1", NoDate, hd, <<"F1">>),
                       Individual("I2", NoDate, wd, <<"F1">>)>>,
     families |-> <<Family("F1", h, w, <<>>, m, dv)>>]

InitSpouseDeath ==
    /\ \E h \in {"I1", None}, w \in {"I2", None} :
           \E hd, wd, m, dv \in OptOrderDates :
               gedcom_file = SpouseGraph(h, w, hd, wd, m, dv)
    /\ Idle

NextSpouseDeath ==
    \E arg \in ArgTypes :
        \/ marriage_before_death(arg)
        \/ divorce_before_death(arg)

SpecSpouseDeath == InitSpouseDeath /\ [][NextSpouseDeath]_vars

\* C1: a story called with an argument that is not a gedcom.File raises
\* TypeError before its body runs, logs nothing and returns no Result; called
\* with a gedcom.File its body runs exactly once and a Result is returned.
C1_TypeChecked ==
    called # "" =>
        IF argType # "gedcom.File"
        THEN raised = "TypeError" /\ bodyRuns = 0 /\ logged = <<>> /\ returned = NoResult
        ELSE bodyRuns = 1 /\ raised = "" /\ returned.name = called

\* the spouses of a family that have a death date
DeadSpouses(f) ==
    {i \in Individuals : i.xref \in {f.husband, f.wife} /\ Has(i.death_date)}

\* C9: in divorce_before_death a family with a divorce date and at least one
\* spouse with a death date is in passed iff the divorce is strictly before the
\* death of every spouse that has a death date, and in failed otherwise.
C9_DivorceBeforeDeath ==
    Returned("divorce_before_death") =>
        \A f \in Families :
            LET mine(e) == e.family_xref = f.xref
            IN  (Has(f.divorce_date) /\ DeadSpouses(f) # {}) =>
                    /\ Count(Passed, mine) + Count(Failed, mine) = 1
                    /\ Count(Passed, mine) = 1 <=>
                           \A i \in DeadSpouses(f) : Before(f.divorce_date, i.death_date)

----------------------------------------------------------------------------
(* The parents' death rule on one family: husband I1, wife I2, child I3    *)

\* 1 JAN 1950, 1 JAN 1980, 1 JAN 2000 and the days 269 and 270 days after it
ParentDates ==
    {<<1950, 1, 1>>, <<1980, 1, 1>>, <<2000, 1, 1>>}
    \cup {AddDays(<<2000, 1, 1>>, k) : k \in {269, 270}}

ParentGraph(h, w, hb, hd, wb, wd, cb) ==
    [individuals |-> <<Individual("I1", hb, hd, <<"F1">>),
                       Individual("I2", wb, wd, <<"F1">>),
                       Individual("I3", cb, NoDate, <<>>)>>,
     families |-> <<Family("F1", h, w, <<"I3">>, NoDate, NoDate)>>]

InitParents ==
    /\ \E h \in {"I1", None}, w \in {"I2", None} :
           \E hb, hd, wb, wd, cb \in ParentDates \cup {NoDate} :
               gedcom_file = ParentGraph(h, w, hb, hd, wb, wd, cb)
    /\ Idle

NextParents == \E arg \in ArgTypes : birth_before_death_of_parents(arg)

SpecParents == InitParents /\ [][NextParents]_vars

\* <<f, c>>: a family and a child of it with a birth date
BornChildren ==
    {t \in Families \X Individuals :
        t[2].xref \in Range(t[1].children) /\ Has(t[2].birth_date)}

Mother(f) == {i \in Individuals : i.xref = f.wife}
Father(f) == {i \in Individuals : i.xref = f.husband}

ChildEntry(entries, f, c) ==
    Count(entries, LAMBDA e : e.family_xref = f.xref /\ e.child.xref = c.xref)

\* C7: in birth_before_death_of_parents a child with a birth date whose mother
\* has a death date is in failed whenever the birth is not strictly before the
\* mother's death, and the mother clause is satisfied whenever it is before it:
\* with a father who has no death date the child is then in passed.
C7_MotherClause ==
    Returned("birth_before_death_of_parents") =>
        \A t \in BornChildren : \A m \in Mother(t[1]) :
            Has(m.death_date) =>
                /\ ~Before(t[2].birth_date, m.death_date)
                       => ChildEntry(Failed, t[1], t[2]) = 1
                /\ (Before(t[2].birth_date, m.death_date)
                    /\ \A d \in Father(t[1]) : ~Has(d.death_date))
                       => ChildEntry(Passed, t[1], t[2]) = 1

\* C8: in birth_before_death_of_parents the father clause of a child with a
\* birth date whose father has a death date is satisfied iff the child is born
\* less than 9 months of 30 days after the father's death: with a mother who
\* has no death date the child is in passed iff it is, and in failed otherwise.
C8_FatherClause ==
    Returned("birth_before_death_of_parents") =>
        \A t \in BornChildren : \A d \in Father(t[1]) :
            (Has(d.death_date) /\ \A m \in Mother(t[1]) : ~Has(m.death_date)) =>
                /\ ChildEntry(Passed, t[1], t[2]) + ChildEntry(Failed, t[1], t[2]) = 1
                /\ ChildEntry(Passed, t[1], t[2]) = 1 <=>
                       ToOrdinal(t[2].birth_date) < ToOrdinal(d.death_date) + 9 * 30

----------------------------------------------------------------------------
(* The marriage age rule on one family: husband I1, wife I2                *)

AgeDates ==
    {<<2000, 1, 1>>, <<2000, 6, 15>>, <<2013, 12, 31>>, <<2014, 1, 1>>,
     <<2014, 6, 15>>, <<2015, 6, 14>>, <<2015, 6, 15>>}

AgeGraph(h, w, hb, wb, m) ==
    [individuals |-> <<Individual("I1", hb, NoDate, <<"F1">>),
                       Individual("I2", wb, NoDate, <<"F1">>)>>,
     families |-> <<Family("F1", h, w, <<>>, m, NoDate)>>]

InitAge ==
    /\ \E h \in {"I1", None}, w \in {"I2", None} :
           \E hb, wb, m \in AgeDates \cup {NoDate} :
               gedcom_file = AgeGraph(h, w, hb, wb, m)
    /\ Idle

NextAge == \E arg \in ArgTypes : marriage_after_14(arg)

SpecAge == InitAge /\ [][NextAge]_vars

\* the marriage is on or after the day the spouse turns the given age
MarriedAtOrAfter(f, spouse, age) ==
    ~DateLT(f.marriage_date,
            <<spouse.birth_date[1] + age, spouse.birth_date[2], spouse.birth_date[3]>>)

\* C10: marriage_after_14 has exactly one entry for a family with a marriage
\* date and a husband and a wife with birth dates, in passed iff the marriage is
\* at least 14 years after the birth of each spouse; any other family has none.
C10_MarriageAfter14 ==
    Returned("marriage_after_14") =>
        \A f \in Families :
            LET mine(e) == e.family.xref = f.xref
                h == Father(f)
                w == Mother(f)
                examined == /\ Has(f.marriage_date)
                            /\ \E i \in h : Has(i.birth_date)
                            /\ \E i \in w : Has(i.birth_date)
            IN  IF examined
                THEN /\ Count(Passed, mine) + Count(Failed, mine) = 1
                     /\ Count(Passed, mine) = 1 <=>
                            \A i \in h \cup w : MarriedAtOrAfter(f, i, 14)
                ELSE Count(Passed, mine) + Count(Failed, mine) = 0

----------------------------------------------------------------------------
(* US12 parents_not_too_old                                                *)

parents_not_too_old_passed(m_yrs_older, f_yrs_older) ==
    (m_yrs_older < 60) /\ (f_yrs_older < 80)

parents_not_too_old_out(fam, h, w, child) ==
    LET m_yrs_older == years_between(child.birth_date, w.birth_date)
        f_yrs_older == years_between(child.birth_date, h.birth_date)
    IN  Append1(parents_not_too_old_passed(m_yrs_older, f_yrs_older),
                [family |-> [xref |-> fam.xref],
                 mother |-> [xref |-> w.xref, birth_date |-> w.birth_date,
                             years_older |-> m_yrs_older],
                 father |-> [xref |-> h.xref, birth_date |-> h.birth_date,
                             years_older |-> f_yrs_older],
                 child |-> [xref |-> child.xref, birth_date |-> child.birth_date],
                 message |-> "msg"])

parents_not_too_old_fam(g, fam) ==
    LET h == Husband(g, fam)
        w == Wife(g, fam)
        kids == SelectSeq(Children(g, fam), LAMBDA c : Has(c.birth_date))
    IN  IF ~Has(fam.marriage_date) THEN <<>>
        ELSE IF IsNone(h) \/ ~Has(h.birth_date) THEN <<>>
        ELSE IF IsNone(w) \/ ~Has(w.birth_date) THEN <<>>
        ELSE Concat([k \in 1..Len(kids) |-> parents_not_too_old_out(fam, h, w, kids[k])])

parents_not_too_old_body(g) ==
    Collect(Concat([i \in 1..Len(g.families) |->
        parents_not_too_old_fam(g, g.families[i])]))

parents_not_too_old(arg) ==
    Story("Anomaly US12", "parents_not_too_old", arg,
          parents_not_too_old_body(gedcom_file))

----------------------------------------------------------------------------
(* The parents' age rule on one family: husband I1, wife I2, child I3      *)

\* births of a mother 60 years and 60 years less a day older than a child
\* born 1 JAN 2000, and of a father 80 years and 80 years less a day older
MotherBirths == {<<1940, 1, 1>>, <<1940, 1, 2>>}
FatherBirths == {<<1920, 1, 1>>, <<1920, 1, 2>>}

OldGraph(h, w, hb, wb, cb, m) ==
    [individuals |-> <<Individual("I1", hb, NoDate, <<"F1">>),
                       Individual("I2", wb, NoDate, <<"F1">>),
                       Individual("I3", cb, NoDate, <<>>)>>,
     families |-> <<Family("F1", h, w, <<"I3">>, m, NoDate)>>]

InitOld ==
    /\ \E h \in {"I1", None}, w \in {"I2", None} :
           \E hb \in FatherBirths \cup {NoDate}, wb \in MotherBirths \cup {NoDate} :
               \E cb \in {<<2000, 1, 1>>, NoDate}, m \in {<<1999, 1, 1>>, NoDate} :
                   gedcom_file = OldGraph(h, w, hb, wb, cb, m)
    /\ Idle

NextOld == \E arg \in ArgTypes : parents_not_too_old(arg)

SpecOld == InitOld /\ [][NextOld]_vars

\* the parent's birthday of the given age is after the child's birth
YoungerThan(parent, child, age) ==
    DateLT(child.birth_date,
           <<parent.birth_date[1] + age, parent.birth_date[2], parent.birth_date[3]>>)

\* C11: parents_not_too_old has exactly one entry for every family whose husband
\* and wife both have birth dates and every child of it with a birth date, in
\* passed iff the mother is less than 60 calendar years older than the child and
\* the father less than 80, whether or not the family has a marriage date.
C11_ParentsNotTooOld ==
    Returned("parents_not_too_old") =>
        \A t \in BornChildren : \A m \in Mother(t[1]) : \A d \in Father(t[1]) :
            LET mine(e) == e.family.xref = t[1].xref /\ e.child.xref = t[2].xref
            IN  (Has(m.birth_date) /\ Has(d.birth_date)) =>
                    /\ Count(Passed, mine) + Count(Failed, mine) = 1
                    /\ Count(Passed, mine) = 1 <=>
                           /\ YoungerThan(m, t[2], 60)
                           /\ YoungerThan(d, t[2], 80)

----------------------------------------------------------------------------
(* Missing spouses and the evidence of the spouse-death rules              *)

\* the date a spouse-death rule requires of a family
RequiredDate(name, f) ==
    IF name = "marriage_before_death" THEN f.marriage_date ELSE f.divorce_date

\* C12: marriage_before_death and divorce_before_death, called on a graph with a
\* family that has the required marriage (resp. divorce) date but no husband
\* reference or no wife reference, do not raise: a Result is returned, with at
\* most one entry for that family, and one only if the spouse that is present
\* has a death date.
C12_MissingSpouseNeverRaises ==
    \A name \in {"marriage_before_death", "divorce_before_death"} :
        \A f \in Families :
            (/\ called = name /\ argType = "gedcom.File"
             /\ Has(RequiredDate(name, f))
             /\ (~HasRef(f.husband) \/ ~HasRef(f.wife)))
            => /\ raised = ""
               /\ returned.name = name
               /\ LET mine(e) == e.family_xref = f.xref
                  IN  /\ Count(Passed, mine) + Count(Failed, mine) <= 1
                      /\ Count(Passed, mine) + Count(Failed, mine) = 1
                             => DeadSpouses(f) # {}


\* the death date an entry about the family should carry for its wife
WifeDeathDate(f) ==
    IF \E i \in Mother(f) : Has(i.death_date)
    THEN (CHOOSE i \in Mother(f) : TRUE).death_date
    ELSE NoDate

\* C17: every entry of divorce_before_death carries as wife_death_date the
\* wife's death date when the wife exists and has one and None otherwise,
\* whatever the husband is; and the rule does not raise on a family with a
\* divorce date, a husband and a wife of whom only one has a death date.
C17_WifeDeathDateEvidence ==
    (called = "divorce_before_death" /\ argType = "gedcom.File") =>
        \A f \in Families :
            /\ (/\ Has(f.divorce_date) /\ HasRef(f.husband) /\ HasRef(f.wife)
                /\ Cardinality(DeadSpouses(f)) = 1) => raised = ""
            /\ \A e \in Range(Passed) \cup Range(Failed) :
                   e.family_xref = f.xref => e.wife_death_date = WifeDeathDate(f)

----------------------------------------------------------------------------
(* US18 siblings_should_not_marry                                          *)

\* indi.spouses: the husband / wife counterparts of the individual in the
\* families of its FAMS lines, in order
Spouses(g, indi) ==
    LET other(fam) == IF fam.husband = indi.xref THEN fam.wife ELSE fam.husband
        fams == SelectSeq(FamiliesFAMS(g, indi), LAMBDA f : HasRef(other(f)))
    IN  [k \in 1..Len(fams) |-> IndiOf(g, other(fams[k]))]

\* the dicts the rule creates live in heap, in order of creation; passed and
\* failed hold references (positions in heap) to them, out is the reference the
\* local variable out holds and msg_out the tuple of msg_out; 0 and <<>> while
\* the locals are unbound
NoLocals ==
    [heap |-> <<>>, passed |-> <<>>, failed |-> <<>>, out |-> 0, msg_out |-> <<>>,
     married_to_sibling |-> 0, raised |-> ""]

\* one iteration of the loop over the siblings
siblings_should_not_marry_sibling(st, fam, indi, spouse, sibling) ==
    LET ref == Len(st.heap) + 1
        out == [indi |-> [xref |-> indi.xref], fam |-> [xref |-> fam.xref],
                message |-> <<>>]
        msg_out == <<indi.xref, sibling.xref>>
    IN  IF sibling.xref = spouse.xref
        THEN [st EXCEPT !.heap = Append(@, [out EXCEPT !.message =
                                               <<"failed_message">> \o msg_out]),
                        !.failed = Append(@, ref),
                        !.out = ref,
                        !.msg_out = msg_out,
                        !.married_to_sibling = @ + 1]
        ELSE [st EXCEPT !.heap = Append(@, out),
                        !.out = ref,
                        !.msg_out = msg_out]

RECURSIVE siblings_should_not_marry_siblings(_, _, _, _, _)
siblings_should_not_marry_siblings(st, fam, indi, spouse, siblings) ==
    IF siblings = <<>> THEN st
    ELSE siblings_should_not_marry_siblings(
             siblings_should_not_marry_sibling(st, fam, indi, spouse, Head(siblings)),
             fam, indi, spouse, Tail(siblings))

\* one iteration of the loop over the spouses: the loop over the siblings, then
\* the if not married_to_sibling on the locals as that loop left them
siblings_should_not_marry_spouse(g, st, fam, indi, spouse) ==
    LET siblings == SelectSeq(Children(g, fam), LAMBDA s : s.xref # indi.xref)
        s1 == siblings_should_not_marry_siblings(
                  [st EXCEPT !.married_to_sibling = 0], fam, indi, spouse, siblings)
    IN  IF st.raised # "" THEN st
        ELSE IF s1.married_to_sibling # 0 THEN s1
        ELSE IF s1.out = 0 THEN [s1 EXCEPT !.raised = "UnboundLocalError"]
        ELSE [s1 EXCEPT !.heap[s1.out].message = <<"passed_message">> \o s1.msg_out,
                        !.passed = Append(@, s1.out)]

RECURSIVE siblings_should_not_marry_rounds(_, _, _)
siblings_should_not_marry_rounds(g, st, rounds) ==
    IF rounds = <<>> THEN st
    ELSE siblings_should_not_marry_rounds(
             g,
             siblings_should_not_marry_spouse(g, st, Head(rounds)[1], Head(rounds)[2],
                                              Head(rounds)[3]),
             Tail(rounds))

\* <<fam, indi, spouse>> of the three outer loops, in order
siblings_should_not_marry_loops(g) ==
    Concat([i \in 1..Len(g.families) |->
        Concat([k \in 1..Len(g.families[i].children) |->
            LET indi == Children(g, g.families[i])[k]
            IN  [j \in 1..Len(Spouses(g, indi)) |->
                    <<g.families[i], indi, Spouses(g, indi)[j]>>]])])

siblings_should_not_marry_body(g) ==
    LET st == siblings_should_not_marry_rounds(g, NoLocals,
                                               siblings_should_not_marry_loops(g))
    IN  IF st.raised # "" THEN Raise(st.raised)
        ELSE Out([k \in 1..Len(st.passed) |-> st.heap[st.passed[k]]],
                 [k \in 1..Len(st.failed) |-> st.heap[st.failed[k]]])

siblings_should_not_marry(arg) ==
    Story("Anomaly US18", "siblings_should_not_marry", arg,
          siblings_should_not_marry_body(gedcom_file))

----------------------------------------------------------------------------
(* The sibling marriage rule on a family P1 of children I1, I2, ..., a     *)
(* family P2 of an only child J1, and marriages among them and X1          *)

Grooms == {"I1", "J1"}
Brides == {"I2", "I3", "J1", "X1"}

\* the marriages a graph may hold: <<husband, wife>>, <<>> for none
Couples == {<<>>} \cup {c \in Grooms \X Brides : c[1] # c[2]}

\* only is where P2 is listed: "none", "first" (before P1) or "last"
MarryGraph(n, only, c1, c2) ==
    LET kids == [k \in 1..n |-> ChildXref(k)]
        people == <<"I1", "I2", "I3", "I4", "J1", "X1">>
        m1 == IF c1 = <<>> THEN <<>> ELSE <<Family("M1", c1[1], c1[2], <<>>, NoDate, NoDate)>>
        m2 == IF c2 = <<>> THEN <<>> ELSE <<Family("M2", c2[1], c2[2], <<>>, NoDate, NoDate)>>
        p1 == <<Family("P1", None, None, kids, NoDate, NoDate)>>
        p2 == <<Family("P2", None, None, <<"J1">>, NoDate, NoDate)>>
        fams(x) == [k \in 1..Len(SelectSeq(m1 \o m2, LAMBDA f : x \in {f.husband, f.wife})) |->
                       SelectSeq(m1 \o m2, LAMBDA f : x \in {f.husband, f.wife})[k].xref]
    IN  [individuals |-> [k \in 1..Len(people) |->
                             Individual(people[k], NoDate, NoDate, fams(people[k]))],
         families |-> CASE only = "first" -> p2 \o p1 \o m1 \o m2
                        [] only = "last" -> p1 \o p2 \o m1 \o m2
                        [] OTHER -> p1 \o m1 \o m2]

InitMarry ==
    /\ \E n \in 0..MaxChildren, only \in {"none", "first", "last"} :
           \E c1, c2 \in Couples :
               gedcom_file = MarryGraph(n, only, c1, c2)
    /\ Idle

NextMarry == \E arg \in ArgTypes : siblings_should_not_marry(arg)

SpecMarry == InitMarry /\ [][NextMarry]_vars

\* <<f, c>>: a family and a child of it
FamilyChildren ==
    {t \in Families \X Individuals : t[2].xref \in Range(t[1].children)}

\* the marriages of the child, as the families in which it is husband or wife
\* with the other spouse named; sibling or not says which of them to take
MarriagesOf(f, c, sibling) ==
    {m \in Families :
        /\ c.xref \in {m.husband, m.wife}
        /\ \E s \in {m.husband, m.wife} \ {c.xref, None} :
               (s \in Range(f.children)) = sibling}

AboutChild(entries, f, c) ==
    Count(entries, LAMBDA e : e.indi.xref = c.xref /\ e.fam.xref = f.xref)

\* C13: siblings_should_not_marry does not raise and, for every family, child of
\* it and spouse of the child, has one failed entry for the child when the
\* spouse is a sibling of the child in the family and one passed entry and no
\* failed one when it is not, also when the child has no siblings at all.
C13_SiblingsShouldNotMarry ==
    (called = "siblings_should_not_marry" /\ argType = "gedcom.File") =>
        /\ raised = ""
        /\ \A t \in FamilyChildren :
               /\ AboutChild(Failed, t[1], t[2])
                      = Cardinality(MarriagesOf(t[1], t[2], TRUE))
               /\ AboutChild(Passed, t[1], t[2])
                      = Cardinality(MarriagesOf(t[1], t[2], FALSE))

\* C19: in the Result of siblings_should_not_marry no entry is in both passed
\* and failed, every failed entry has the failed message and every passed entry
\* the passed one, and the passed entries about a child of a family are as many
\* as the spouses of the child that are not its siblings: none is an entry of
\* an earlier child or family appended again.
C19_EvidenceNotShared ==
    Returned("siblings_should_not_marry") =>
        /\ Range(Passed) \cap Range(Failed) = {}
        /\ \A e \in Range(Failed) : e.message[1] = "failed_message"
        /\ \A e \in Range(Passed) : e.message[1] = "passed_message"
        /\ \A t \in FamilyChildren :
               AboutChild(Passed, t[1], t[2])
                   = Cardinality(MarriagesOf(t[1], t[2], FALSE))

----------------------------------------------------------------------------
(* The graph after no_bigamy                                               *)

\* a living husband I1 and his families, each with or without a marriage date,
\* a divorce of 1 JAN 2002 and a death of the wife
InitBigamyAgain ==
    /\ \E n \in 0..MaxMarriages :
           \E ms \in [1..n -> (BigamyDates \cup {NoDate})
                               \X {NoDate, <<2002, 1, 1>>}
                               \X {NoDate, <<2001, 6, 15>>}] :
               \E extra \in {"none", "first", "last"} :
                   gedcom_file = BigamyGraph(NoDate, ms, extra)
    /\ Idle

SpecBigamyAgain == InitBigamyAgain /\ [][NextBigamy]_vars

\* the families whose marriage_end dicts a call of no_bigamy popped dt from
PoppedByNoBigamy ==
    UNION {{t[2].xref, t[3].xref} : t \in Range(no_bigamy_todo(gedcom_file))}

\* what no_bigamy yields when run again after a call of it
NoBigamyAgain ==
    CollectOrRaise(no_bigamy_pairs(gedcom_file, no_bigamy_todo(gedcom_file),
                                   PoppedByNoBigamy))

NoBigamyLeavesValues ==
    (called = "no_bigamy" /\ argType = "gedcom.File") =>
        /\ raised = ""
        /\ \A f \in Families :
               marriage_end_read(gedcom_file, f, PoppedByNoBigamy)
                   = marriage_end(gedcom_file, f)
        /\ NoBigamyAgain.raised = ""
        /\ NoBigamyAgain.passed = Passed
        /\ NoBigamyAgain.failed = Failed

----------------------------------------------------------------------------
(* The log of a story call                                                 *)

\* the id a story is registered with and what its body yields on the graph
StoryId(name) ==
    CASE name = "birth_before_marriage" -> "Error US02"
      [] name = "birth_before_death" -> "Error US03"
      [] name = "marriage_before_divorce" -> "Error US04"
      [] name = "birth_before_marriage_of_parents" -> "Anomaly US08"

StoryBody(name) ==
    CASE name = "birth_before_marriage" -> birth_before_marriage_body(gedcom_file)
      [] name = "birth_before_death" -> birth_before_death_body(gedcom_file)
      [] name = "marriage_before_divorce" -> marriage_before_divorce_body(gedcom_file)
      [] name = "birth_before_marriage_of_parents" ->
             birth_before_marriage_of_parents_body(gedcom_file)

\* C16: a story call with a File logs exactly one line per entry of its Result,
\* len(passed) + len(failed) in all, each with the story's id and name; the
\* lines of the passed entries come first, in list order, with status Passed,
\* then those of the failed entries, in list order, with status Failed; and the
\* Result returned holds the lists the story's body yielded, unchanged.
C16_OneLogLinePerEntry ==
    (called # "" /\ argType = "gedcom.File" /\ raised = "") =>
        /\ Len(logged) = Len(Passed) + Len(Failed)
        /\ \A k \in 1..Len(logged) :
               /\ logged[k].story_id = StoryId(called)
               /\ logged[k].story_name = called
        /\ \A k \in 1..Len(Passed) :
               /\ logged[k].status = "Passed"
               /\ logged[k].message = Passed[k].message
        /\ \A k \in 1..Len(Failed) :
               /\ logged[Len(Passed) + k].status = "Failed"
               /\ logged[Len(Passed) + k].message = Failed[k].message
        /\ returned.id = StoryId(called)
        /\ returned.name = called
        /\ Passed = StoryBody(called).passed
        /\ Failed = StoryBody(called).failed

\* birth_before_marriage of a husband born before the marriage and a wife born
\* after it: two lines, the husband's Passed line first
C16_Witness ==
    /\ Returned("birth_before_marriage")
    /\ Len(Passed) = 1 /\ Len(Failed) = 1
    /\ Passed[1].indi.xref = "I1" /\ Failed[1].indi.xref = "I2"
    /\ Len(logged) = 2
    /\ logged[1].status = "Passed" /\ logged[1].message[2] = "I1"
    /\ logged[2].status = "Failed" /\ logged[2].message[2] = "I2"

----------------------------------------------------------------------------
(* Listing order of the children in siblings_spacing                       *)

Reverse(s) == [k \in 1..Len(s) |-> s[Len(s) + 1 - k]]

\* the graph with the children of every family listed in the opposite order
ChildrenReversed(g) ==
    [g EXCEPT !.families =
        [k \in 1..Len(g.families) |->
            [g.families[k] EXCEPT !.children = Reverse(@)]]]

----------------------------------------------------------------------------
(* US23 unique_name_and_birth_date                                         *)

\* r = {"passed": [], "failed": []}; # ...; return r
unique_name_and_birth_date_body(g) == Out(<<>>, <<>>)

unique_name_and_birth_date(arg) ==
    Story("Anomaly US23", "unique_name_and_birth_date", arg,
          unique_name_and_birth_date_body(gedcom_file))

----------------------------------------------------------------------------
(* The uniqueness rule on three named individuals                          *)

Names == {"Ann /Lee/", "Bob /Lee/"}

NamedIndividual(x, name, b) ==
    [xref |-> x, name |-> name, birth_date |-> b, death_date |-> NoDate, fams |-> <<>>]

InitUnique ==
    /\ \E names \in [1..3 -> Names] :
           \E births \in [1..3 -> {<<2000, 1, 1>>, <<2000, 1, 2>>, NoDate}] :
               gedcom_file =
                   [individuals |-> [k \in 1..3 |->
                                        NamedIndividual(ChildXref(k), names[k], births[k])],
                    families |-> <<>>]
    /\ Idle

NextUnique == \E arg \in ArgTypes : unique_name_and_birth_date(arg)

SpecUnique == InitUnique /\ [][NextUnique]_vars

\* C14: when two individuals of the graph have the same name and the same birth
\* date, each of them is in the failed list of unique_name_and_birth_date
\* exactly once.
C14_DuplicatesFailOnce ==
    Returned("unique_name_and_birth_date") =>
        \A i \in Individuals : \A j \in Individuals \ {i} :
            (i.name = j.name /\ Has(i.birth_date) /\ i.birth_date = j.birth_date) =>
                Count(Failed, LAMBDA e : e.xref = i.xref) = 1

====
